---------------------------- MODULE Spec2Model ----------------------------
(***************************************************************************)
(* Model of contact_evolution.py: the contact factory, the evolution      *)
(* engine, the simulation runner and the two renderers, driven as main()    *)
(* drives them.                                                             *)
(*                                                                          *)
(* Numbers.  Python floats are modelled as fixed-point numbers with two     *)
(* decimal places: the integer n stands for n / Scale.  Every assignment of *)
(* the source is evaluated exactly and rounded once to the nearest grid     *)
(* value, the way a float assignment rounds once to the nearest float.      *)
(* int() truncates toward zero, as in Python.  The 1e-6 added to a          *)
(* distance is below the grid and is modelled by the smallest positive      *)
(* grid value (Epsilon), which keeps its purpose: a distance is never 0.    *)
(*                                                                          *)
(* Objects.  Contact is a mutable dataclass, so contacts live in a heap     *)
(* (a sequence of records) and lists and tuples hold references (heap       *)
(* indices).  Copying a reference and copying an object are different       *)
(* operations in the model, as they are in Python.                          *)
(***************************************************************************)
EXTENDS Integers, Sequences, FiniteSets

VARIABLES
    args,         \* main(): the parsed command line and the callers' parameters
    pc,           \* main(): position in the pipeline
    heap,         \* every Contact object allocated so far, by reference
    contacts,     \* main(): the list create_contacts returned (references)
    simulation,   \* the EvolutionSimulation object of run_simulation
    snapshots,    \* run_simulation(): the list of Snapshot records
    history,      \* per snapshot, the contact values it showed when returned
    integrated,   \* step(): per contact, the values after line 86, before bounds
    audio,        \* the WAV file generate_audio wrote, or None
    frames        \* generate_visual_frames(): directory, files, frame_paths

vars == <<args, pc, heap, contacts, simulation, snapshots, history,
          integrated, audio, frames>>

\* Python's None: a value that is no simulation, no file and no directory.
None == [none |-> TRUE]

---------------------------------------------------------------------------
(* Bounds of the model. *)

MaxContacts == 2      \* --contacts ranges over -1 .. MaxContacts
MaxSteps == 3         \* --steps ranges over -1 .. MaxSteps

---------------------------------------------------------------------------
(* Fixed-point arithmetic. *)

Scale == 10 * 10

Abs(a) == IF a < 0 THEN -a ELSE a
Min(a, b) == IF a < b THEN a ELSE b
Max(a, b) == IF a > b THEN a ELSE b

\* a / b rounded to the nearest integer (b > 0), halves rounded up.
RDiv(a, b) == (2 * a + b) \div (2 * b)

\* int(a / b) for b > 0: truncation toward zero.
Trunc(a, b) == IF a >= 0 THEN a \div b ELSE -((-a) \div b)

RECURSIVE ISqrtIn(_, _, _)
ISqrtIn(n, lo, hi) ==
    IF lo >= hi THEN lo
    ELSE LET mid == (lo + hi + 1) \div 2
         IN  IF mid * mid <= n THEN ISqrtIn(n, mid, hi)
                               ELSE ISqrtIn(n, lo, mid - 1)

\* floor(sqrt(n)); 46340 is the largest root whose square is an integer of TLC.
ISqrt(n) == ISqrtIn(n, 0, Min(n, 46340))

\* math.hypot(a, b) of two grid values, rounded to the nearest grid value.
Hypot(a, b) ==
    LET n == a * a + b * b
        r == ISqrt(n)
    IN  IF n - r * r > r THEN r + 1 ELSE r

RECURSIVE SumSeq(_)
SumSeq(s) == IF s = <<>> THEN 0 ELSE Head(s) + SumSeq(Tail(s))

---------------------------------------------------------------------------
(* Program constants, as grid values. *)

Epsilon == 1                \* 1e-6, line 69
RepulsionRange == 20        \* 0.2, line 74
DefaultDamping == 98        \* 0.98, line 124
DefaultSampleRate == 44100  \* line 136
DefaultStepDuration == 10   \* 0.1, line 137
DefaultSeed == 42           \* line 206

---------------------------------------------------------------------------
(* random.Random: a seeded generator.  The Mersenne Twister is replaced by  *)
(* a small linear congruential generator; what the model keeps is that the  *)
(* stream is a function of the seed and that random() lies in [0, 1).       *)

RngModulus == 8 * 8

RngNext(s) == (s * 37 + 11) % RngModulus

\* The state after n draws from a generator seeded with seed.
RECURSIVE RngState(_, _)
RngState(seed, n) == IF n = 0 THEN seed % RngModulus
                     ELSE RngNext(RngState(seed, n - 1))

\* rng.random(): the n-th draw (n >= 1), a grid value in [0, Scale).
Random(seed, n) == (RngState(seed, n) * Scale) \div RngModulus

\* rng.uniform(a, b) == a + (b - a) * random().
Uniform(seed, n, a, b) == a + RDiv((b - a) * Random(seed, n), Scale)

---------------------------------------------------------------------------
(* Contact and create_contacts. *)

Contact(identifier, x, y, vx, vy, affinity) ==
    [identifier |-> identifier, x |-> x, y |-> y,
     vx |-> vx, vy |-> vy, affinity |-> affinity]

\* create_contacts(count, seed): range(count) is empty for count <= 0.
create_contacts(count, seed) ==
    [k \in 1..Max(count, 0) |->
        LET identifier == k - 1
            d == 5 * identifier
        IN  Contact(identifier,
                    Random(seed, d + 1),
                    Random(seed, d + 2),
                    Uniform(seed, d + 3, -5, 5),
                    Uniform(seed, d + 4, -5, 5),
                    Uniform(seed, d + 5, 40, 100))]

\* The references first .. first + n - 1, in order.
Refs(first, n) == [k \in 1..n |-> first + k - 1]

\* The objects a sequence of references points at.
Deref(h, refs) == [k \in 1..Len(refs) |-> h[refs[k]]]

---------------------------------------------------------------------------
(* EvolutionSimulation. *)

\* __init__, line 46: Contact(**contact.__dict__) allocates one new object
\* per input contact, with the input's field values.
CopyContacts(h, refs) == h \o Deref(h, refs)

\* NewSimulation with the bug of keeping the caller's objects.
NewSimulationAliasing(h, refs, bounds, damping) ==
    [contacts |-> refs,
     width |-> bounds[1], height |-> bounds[2],
     damping |-> damping, time |-> 0]

\* __init__, lines 46-49: the engine after construction.  h is the heap
\* before the copies are allocated.
NewSimulation(h, refs, bounds, damping) ==
    [contacts |-> Refs(Len(h) + 1, Len(refs)),
     width |-> bounds[1], height |-> bounds[2],
     damping |-> damping, time |-> 0]

\* The contacts property, lines 56-58: a new tuple of the same references.
ContactsProperty(sim) == sim.contacts

\* Lines 67-77: the force of the pair (contact, other) on contact.
PairForce(contact, other) ==
    LET dx == other.x - contact.x
        dy == other.y - contact.y
        distance == Hypot(dx, dy) + Epsilon
        direction_x == RDiv(dx * Scale, distance)
        direction_y == RDiv(dy * Scale, distance)
        affinity == RDiv((contact.affinity + other.affinity) * 50, Scale)
        base == RDiv(affinity * Scale * Scale, distance * distance)
        influence == IF distance < RepulsionRange
                     THEN RDiv(base * (-150), Scale) ELSE base
    IN  <<RDiv(direction_x * influence, Scale),
          RDiv(direction_y * influence, Scale)>>

\* Lines 63-79: forces[i] gains the force of every pair (i, j), j > i, and
\* loses the force of every pair (j, i), j < i.
Forces(cs) ==
    [i \in 1..Len(cs) |->
        LET part(j, axis) ==
                IF j > i THEN PairForce(cs[i], cs[j])[axis]
                ELSE IF j < i THEN -PairForce(cs[j], cs[i])[axis]
                ELSE 0
        IN  <<SumSeq([j \in 1..Len(cs) |-> part(j, 1)]),
              SumSeq([j \in 1..Len(cs) |-> part(j, 2)])>>]

\* Lines 83-86: velocity = (velocity + force * dt) * damping, then
\* position += velocity * dt.
Integrate(contact, force, dt, damping) ==
    LET vx == RDiv((contact.vx * Scale + force[1] * dt) * damping,
                   Scale * Scale)
        vy == RDiv((contact.vy * Scale + force[2] * dt) * damping,
                   Scale * Scale)
    IN  [contact EXCEPT !.vx = vx, !.vy = vy,
                        !.x = contact.x + RDiv(vx * dt, Scale),
                        !.y = contact.y + RDiv(vy * dt, Scale)]

\* apply_bounds with the bug of not clamping at the upper wall.
apply_bounds_unclamped(position, velocity, max_value) ==
    IF position < 0 THEN <<0, Abs(velocity)>>
    ELSE IF position > max_value THEN <<position, -Abs(velocity)>>
    ELSE <<position, velocity>>

\* apply_bounds with the bug of negating the velocity at the lower wall.
apply_bounds_negating(position, velocity, max_value) ==
    IF position < 0 THEN <<0, -velocity>>
    ELSE IF position > max_value THEN <<max_value, -Abs(velocity)>>
    ELSE <<position, velocity>>

\* _apply_bounds, lines 94-99: <<position, velocity>>.
apply_bounds(position, velocity, max_value) ==
    IF position < 0 THEN <<0, Abs(velocity)>>
    ELSE IF position > max_value THEN <<max_value, -Abs(velocity)>>
    ELSE <<position, velocity>>

\* Lines 87-88.
Bounded(contact, width, height) ==
    LET bx == apply_bounds(contact.x, contact.vx, width)
        by == apply_bounds(contact.y, contact.vy, height)
    IN  [contact EXCEPT !.x = bx[1], !.vx = bx[2], !.y = by[1], !.vy = by[2]]

\* Line 91.
Energy(cs) == SumSeq([k \in 1..Len(cs) |-> Hypot(cs[k].vx, cs[k].vy)])

\* Line 90.
AdvanceTime(time, dt) == time + dt

\* Line 92.
Snapshot(time, refs, energy) ==
    [time |-> time, contacts |-> refs, energy |-> energy]

---------------------------------------------------------------------------
(* The inputs of a run. *)

\* Contact lists a caller builds itself and hands to run_simulation; they
\* start outside the box on either side of it.
SuppliedContacts ==
    { <<Contact(7, -20, 130, 5, 5, 100), Contact(8, 40, 30, 0, 0, 100)>>,
      <<Contact(0, 150, -10, 5, -5, 40)>> }

\* --seed: the default and another one.
Seeds == {DefaultSeed, 7}

\* Where the contacts of a run come from: the factory (--contacts, --seed)
\* or the caller.
Sources ==
    [kind : {"factory"}, count : -1..MaxContacts, seed : Seeds,
     given : {<<>>}]
    \cup [kind : {"caller"}, count : {0}, seed : {0}, given : SuppliedContacts]

\* --dt: -0.05, 0, 0.05 (the default) and 0.1.
DtValues == {-5, 0, 5, 10}

\* bounds of run_simulation: the default (1.0, 1.0) and a narrower, taller box.
BoundsValues == {<<Scale, Scale>>, <<50, 120>>}

\* The contact values the run starts from.
InputContacts ==
    IF args.source.kind = "factory"
    THEN create_contacts(args.source.count, args.source.seed)
    ELSE args.source.given

---------------------------------------------------------------------------
(* main() and run_simulation(). *)

Init ==
    /\ args \in [source : Sources, steps : -1..MaxSteps, dt : DtValues,
                 bounds : BoundsValues]
    /\ pc = "create"
    /\ heap = <<>>
    /\ contacts = <<>>
    /\ simulation = None
    /\ snapshots = <<>>
    /\ history = <<>>
    /\ integrated = <<>>
    /\ audio = None
    /\ frames = None

\* main(), line 212, or a caller's own list of Contact objects.
CreateContacts ==
    /\ pc = "create"
    /\ heap' = heap \o InputContacts
    /\ contacts' = Refs(Len(heap) + 1, Len(InputContacts))
    /\ pc' = "construct"
    /\ UNCHANGED <<args, simulation, snapshots, history, integrated, audio,
                   frames>>

\* run_simulation(), lines 126-127.
Construct ==
    /\ pc = "construct"
    /\ heap' = CopyContacts(heap, contacts)
    /\ simulation' = NewSimulation(heap, contacts, args.bounds, DefaultDamping)
    /\ snapshots' = <<>>
    /\ pc' = "run"
    /\ UNCHANGED <<args, contacts, history, integrated, audio, frames>>

\* step(dt), lines 60-92, as called at line 129.
step(dt) ==
    LET refs == simulation.contacts
        cs == Deref(heap, refs)
        forces == Forces(cs)
        moved == [k \in 1..Len(cs) |->
                     Integrate(cs[k], forces[k], dt, simulation.damping)]
        after == [k \in 1..Len(cs) |->
                     Bounded(moved[k], simulation.width, simulation.height)]
        written == [r \in DOMAIN heap |->
                     IF \E k \in 1..Len(refs) : refs[k] = r
                     THEN after[CHOOSE k \in 1..Len(refs) : refs[k] = r]
                     ELSE heap[r]]
        sim == [simulation EXCEPT !.time = AdvanceTime(@, dt)]
    IN  /\ heap' = written
        /\ simulation' = sim
        /\ integrated' = moved
        /\ snapshots' = Append(snapshots,
                               Snapshot(sim.time, ContactsProperty(sim),
                                        Energy(after)))
        /\ history' = Append(history, Deref(written, ContactsProperty(sim)))

\* LoopContinues with the bug of running one round too many.
LoopContinuesInclusive(i, steps) == i <= steps

\* range(steps), line 128: whether the loop runs once more after i rounds.
LoopContinues(i, steps) == i < steps

\* run_simulation(), lines 128-129: one round of the loop.
CallStep ==
    /\ pc = "run"
    /\ LoopContinues(Len(snapshots), args.steps)
    /\ step(args.dt)
    /\ UNCHANGED <<args, pc, contacts, audio, frames>>

\* run_simulation(), line 130.
ReturnSnapshots ==
    /\ pc = "run"
    /\ ~LoopContinues(Len(snapshots), args.steps)
    /\ pc' = "audio"
    /\ UNCHANGED <<args, heap, contacts, simulation, snapshots, history,
                   integrated, audio, frames>>

---------------------------------------------------------------------------
(* generate_audio. *)

\* (sample_rate, step_duration) of a call: the defaults main() uses, and two
\* calls whose product is not a whole number (2.5 and 0.4 samples).
AudioParams == {<<DefaultSampleRate, DefaultStepDuration>>, <<10, 25>>, <<8, 5>>}

\* StepSamples with the bug of rounding instead of truncating.
StepSamplesRounded(sample_rate, step_duration) ==
    RDiv(sample_rate * step_duration, Scale)

\* Line 143: int(sample_rate * step_duration).
StepSamples(sample_rate, step_duration) ==
    Trunc(sample_rate * step_duration, Scale)

\* Lines 145-154: the sample with index sample_index of the snapshot at
\* position index.  Its value is a sine of these two, which integer
\* arithmetic does not have; the sample is named by what determines it.
Sample(index, sample_index) == <<index, sample_index>>

\* Lines 141-154: the samples of all snapshots, in snapshot order.
Samples(n_snapshots, step_samples) ==
    [i \in 1..(n_snapshots * step_samples) |->
        Sample((i - 1) \div step_samples + 1, (i - 1) % step_samples)]

\* Lines 156-160: the WAV file; call records the parameters of the call.
WavFile(sample_rate, step_duration, samples) ==
    [nchannels |-> 1, sampwidth |-> 2, framerate |-> sample_rate,
     frames |-> samples,
     call |-> [sample_rate |-> sample_rate, step_duration |-> step_duration]]

\* main(), line 214.
GenerateAudio ==
    /\ pc = "audio"
    /\ \E p \in AudioParams :
          audio' = WavFile(p[1], p[2],
                           Samples(Len(snapshots), StepSamples(p[1], p[2])))
    /\ pc' = "frames"
    /\ UNCHANGED <<args, heap, contacts, simulation, snapshots, history,
                   integrated, frames>>

---------------------------------------------------------------------------
(* generate_visual_frames. *)

\* size of a call: the default (512, 512) and a small grid.
FrameSizes == {<<512, 512>>, <<4, 3>>}

Background == <<12, 12, 24>>

\* Lines 163-165.
color_for_contact(contact) ==
    <<Trunc(80 * Scale + 175 * Min(Scale, contact.affinity), Scale),
      Trunc(60 * Scale + 195 * contact.x, Scale),
      Trunc(60 * Scale + 195 * contact.y, Scale)>>

\* Python's round(a / b) for b > 0: to the nearest integer, halves to even.
PyRound(a, b) ==
    LET q == (2 * a + b) \div (2 * b)
    IN  IF (2 * a + b) % (2 * b) = 0 /\ q % 2 = 1 THEN q - 1 ELSE q

\* PixelCoordinate with round() in the place of int().
PixelCoordinateRounded(position, extent) ==
    Min(extent - 1, Max(0, PyRound(position * (extent - 1), Scale)))

\* Lines 181-182: min(extent - 1, max(0, int(position * (extent - 1)))).
PixelCoordinate(position, extent) ==
    Min(extent - 1, Max(0, Trunc(position * (extent - 1), Scale)))

\* Lines 186-187.
Neighbour(pixel, offset, extent) == Min(extent - 1, Max(0, pixel + offset))

\* Lines 181-182: <<x, y>> of a contact.
Centre(contact, size) ==
    <<PixelCoordinate(contact.x, size[1]), PixelCoordinate(contact.y, size[2])>>

\* Lines 184-188: the pixels <<row, column>> a contact colours.
Marks(contact, size) ==
    LET c == Centre(contact, size)
    IN  {<<c[2], c[1]>>} \cup
        {<<Neighbour(c[2], o, size[2]), Neighbour(c[1], o, size[1])>> :
            o \in {-1, 1}}

\* Lines 179-188: the grid, as the pixels that are not Background; a pixel
\* keeps the colour of the last contact that coloured it.
Pixels(cs, size) ==
    [p \in UNION {Marks(cs[k], size) : k \in 1..Len(cs)} |->
        LET last == CHOOSE k \in 1..Len(cs) :
                       /\ p \in Marks(cs[k], size)
                       /\ \A j \in (k + 1)..Len(cs) : p \notin Marks(cs[j], size)
        IN  color_for_contact(cs[last])]

DigitChar == <<"0", "1", "2", "3", "4", "5", "6", "7", "8", "9">>

\* str(n) for n >= 0, one character per element.
RECURSIVE Decimal(_)
Decimal(n) == IF n < 10 THEN <<DigitChar[n + 1]>>
              ELSE Decimal(n \div 10) \o <<DigitChar[(n % 10) + 1]>>

\* width zero-padded: at least width characters.
RECURSIVE ZeroPad(_, _)
ZeroPad(text, width) == IF Len(text) >= width THEN text
                        ELSE ZeroPad(<<"0">> \o text, width)

\* FramePath with the bug of not padding the index.
FramePathUnpadded(frame_index) ==
    <<"frame_">> \o Decimal(frame_index) \o <<".ppm">>

\* Line 189: f"frame_{frame_index:04d}.ppm", in output_dir.
FramePath(frame_index) ==
    <<"frame_">> \o ZeroPad(Decimal(frame_index), 4) \o <<".ppm">>

\* Lines 179-194: the file of one snapshot.  centres keeps the <<x, y>> of
\* lines 181-182 for each contact.
FrameFile(frame_index, cs, size) ==
    [path |-> FramePath(frame_index), width |-> size[1], height |-> size[2],
     pixels |-> Pixels(cs, size),
     centres |-> [k \in 1..Len(cs) |-> Centre(cs[k], size)]]

\* Lines 175-196: enumerate(snapshots) counts from 0.
VisualFrames(size) ==
    LET files == [i \in 1..Len(snapshots) |->
                     FrameFile(i - 1, Deref(heap, snapshots[i].contacts), size)]
    IN  [dir_created |-> TRUE, files |-> files,
         frame_paths |-> [i \in 1..Len(files) |-> files[i].path]]

\* main(), line 215.
GenerateVisualFrames ==
    /\ pc = "frames"
    /\ \E size \in FrameSizes : frames' = VisualFrames(size)
    /\ pc' = "done"
    /\ UNCHANGED <<args, heap, contacts, simulation, snapshots, history,
                   integrated, audio>>

Next ==
    \/ CreateContacts
    \/ Construct
    \/ CallStep
    \/ ReturnSnapshots
    \/ GenerateAudio
    \/ GenerateVisualFrames

Spec == Init /\ [][Next]_vars

---------------------------------------------------------------------------
(* Properties. *)

Stepped == Len(snapshots) >= 1

\* The engine's contacts, by value.
Live == Deref(heap, simulation.contacts)

\* C1 (as claimed): the contacts a snapshot holds keep, after every later
\* step, the values they had when step returned the snapshot.
C1_SnapshotNeverMutated ==
    \A k \in 1..Len(snapshots) :
        Deref(heap, snapshots[k].contacts) = history[k]

\* C2: with width > 0, height > 0 and dt > 0, after every step every
\* contact lies in [0, width] x [0, height] and the engine holds as many
\* contacts as it was constructed with.
C2_StepKeepsContactsInBox ==
    (Stepped /\ args.dt > 0 /\ simulation.width > 0 /\ simulation.height > 0)
    => /\ Len(simulation.contacts) = Len(InputContacts)
       /\ \A k \in 1..Len(snapshots) :
              Len(snapshots[k].contacts) = Len(InputContacts)
       /\ \A k \in 1..Len(Live) :
              /\ 0 <= Live[k].x /\ Live[k].x <= simulation.width
              /\ 0 <= Live[k].y /\ Live[k].y <= simulation.height

\* C2 witness: a step with dt > 0 took contacts that started outside the
\* box past a lower wall and past an upper wall.
C2_Witness ==
    /\ Stepped /\ args.dt > 0
    /\ \E k \in 1..Len(InputContacts) :
          InputContacts[k].x < 0 \/ InputContacts[k].x > simulation.width
    /\ \E k \in 1..Len(integrated) : integrated[k].x < 0
    /\ \E k \in 1..Len(integrated) : integrated[k].y > simulation.height

\* C3: the Contact objects the caller passed in keep their field values
\* through construction and every step.
C3_InputContactsUnchanged ==
    pc # "create" => Deref(heap, contacts) = InputContacts

\* C3 witness: two steps have run and moved the engine's contacts away
\* from the values the caller's contacts have.
C3_Witness ==
    /\ Len(snapshots) >= 2
    /\ contacts # <<>>
    /\ \A k \in 1..Len(Live) : Live[k] # InputContacts[k]

C5_NonPositiveDtRefused ==
    (args.dt <= 0 /\ simulation # None)
    => /\ snapshots = <<>>
       /\ simulation.time = 0
       /\ Live = InputContacts

\* C6 (as claimed): with a negative contact count create_contacts does not
\* return, with a negative step count run_simulation does not return, and
\* in both cases no step runs and no file is written.
C6_NegativeCountsRefused ==
    (args.source.count < 0 \/ args.steps < 0)
    => /\ args.source.count < 0 => pc = "create"
       /\ args.steps < 0 => pc \in {"create", "construct", "run"}
       /\ snapshots = <<>>
       /\ audio = None
       /\ frames = None

\* The number a sequence of decimal digit characters denotes.
RECURSIVE DecimalValue(_)
DecimalValue(text) ==
    IF text = <<>> THEN 0
    ELSE 10 * DecimalValue(SubSeq(text, 1, Len(text) - 1))
         + (CHOOSE d \in 0..9 : DigitChar[d + 1] = text[Len(text)])

\* C7: generate_visual_frames writes one file per snapshot, in order, the
\* k-th (from 0) named frame_ and k as four digits, and returns the paths
\* of the files in the same order.
C7_OneFramePerSnapshot ==
    frames # None
    => /\ Len(frames.files) = Len(snapshots)
       /\ Len(frames.frame_paths) = Len(snapshots)
       /\ \A i \in 1..Len(frames.files) :
              LET path == frames.files[i].path
              IN  /\ frames.frame_paths[i] = path
                  /\ Len(path) = 6
                  /\ path[1] = "frame_"
                  /\ DecimalValue(SubSeq(path, 2, 5)) = i - 1

\* C7 witness: three frames were written for three snapshots.
C7_Witness ==
    /\ frames # None
    /\ Len(snapshots) = 3
    /\ Len(frames.frame_paths) = 3

\* C8: when generate_audio returns, the file holds trunc(sample_rate *
\* step_duration) samples per snapshot, whatever the snapshot holds, in
\* snapshot order; 4410 per snapshot with the defaults, none for no snapshots.
C8_SamplesPerSnapshot ==
    pc = "frames"
    => LET product == audio.call.sample_rate * audio.call.step_duration
           total == Len(audio.frames)
       IN  /\ Len(snapshots) = 0 => total = 0
           /\ Len(snapshots) > 0 =>
                 LET n == total \div Len(snapshots)
                 IN  /\ total = n * Len(snapshots)
                     /\ n * Scale <= product /\ product < (n + 1) * Scale
                     /\ \A i \in 1..total :
                            audio.frames[i]
                                = <<(i - 1) \div n + 1, (i - 1) % n>>
           /\ (audio.call.sample_rate = 44100 /\ audio.call.step_duration = 10)
              => total = Len(snapshots) * 4410

\* C8 witness: the defaults, on two or more snapshots that hold no contact.
C8_Witness ==
    /\ pc = "frames"
    /\ audio.call.sample_rate = 44100 /\ audio.call.step_duration = 10
    /\ Len(snapshots) >= 2
    /\ \A k \in 1..Len(snapshots) : snapshots[k].contacts = <<>>
    /\ Len(audio.frames) = Len(snapshots) * 4410

\* What _apply_bounds is claimed to make of an integrated coordinate.
Reflected(position, velocity, max_value, now, velocity_now) ==
    /\ position < 0 => (now = 0 /\ velocity_now = Abs(velocity))
    /\ position > max_value
           => (now = max_value /\ velocity_now = -Abs(velocity))
    /\ (0 <= position /\ position <= max_value)
           => (now = position /\ velocity_now = velocity)
    /\ (position < 0 /\ now = 0) => velocity_now >= 0
    /\ (position > max_value /\ now = max_value) => velocity_now <= 0

\* C9: after a step, each axis of each contact is the integrated coordinate
\* reflected at the walls: below 0 it is 0 with velocity |v|, above max it
\* is max with velocity -|v|, otherwise position and velocity are kept.
C9_BoundaryReflection ==
    Stepped
    => \A k \in 1..Len(Live) :
          /\ Reflected(integrated[k].x, integrated[k].vx, simulation.width,
                       Live[k].x, Live[k].vx)
          /\ Reflected(integrated[k].y, integrated[k].vy, simulation.height,
                       Live[k].y, Live[k].vy)

\* C9 witness: one step left a contact below 0 on an axis while it moved
\* up, another above max, and a third coordinate inside the box.
C9_Witness ==
    /\ Stepped
    /\ \E k \in 1..Len(Live) :
          (integrated[k].x < 0 /\ integrated[k].vx > 0)
    /\ \E k \in 1..Len(Live) : integrated[k].y > simulation.height
    /\ \E k \in 1..Len(Live) :
          (0 < integrated[k].x /\ integrated[k].x < simulation.width)

\* The contacts frame i was drawn from.
Drawn(i) == Deref(heap, snapshots[i].contacts)

\* C10 (as claimed): the pixel column and row of a contact are its scaled
\* coordinates rounded to the nearest integer, then clamped.
C10_PixelIsRounded ==
    frames # None
    => \A i \in 1..Len(frames.files) :
          LET f == frames.files[i]
          IN  \A k \in 1..Len(f.centres) :
                 /\ f.centres[k][1]
                      = Min(f.width - 1,
                            Max(0, PyRound(Drawn(i)[k].x * (f.width - 1), Scale)))
                 /\ f.centres[k][2]
                      = Min(f.height - 1,
                            Max(0, PyRound(Drawn(i)[k].y * (f.height - 1), Scale)))

\* pixel is the scaled coordinate position * (extent - 1) with its fraction
\* dropped, clamped to 0 .. extent - 1.
Truncated(position, extent, pixel) ==
    LET scaled == position * (extent - 1)
    IN  /\ 0 <= pixel /\ pixel <= extent - 1
        /\ (scaled >= 0 /\ pixel < extent - 1)
               => (pixel * Scale <= scaled /\ scaled < (pixel + 1) * Scale)
        /\ pixel = extent - 1 => scaled >= (extent - 1) * Scale
        /\ scaled < 0 => pixel = 0

\* C10 (amended): the pixel column and row of a contact are its scaled
\* coordinates truncated toward zero, then clamped.
C10_PixelIsTruncated ==
    frames # None
    => \A i \in 1..Len(frames.files) :
          LET f == frames.files[i]
          IN  \A k \in 1..Len(f.centres) :
                 /\ Truncated(Drawn(i)[k].x, f.width, f.centres[k][1])
                 /\ Truncated(Drawn(i)[k].y, f.height, f.centres[k][2])

\* C10 witness: a frame holds a contact whose scaled column has a fraction
\* of a half or more, so that rounding and truncating differ.
C10_Witness ==
    /\ frames # None
    /\ \E i \in 1..Len(frames.files) :
          LET f == frames.files[i]
          IN  \E k \in 1..Len(f.centres) :
                 /\ (Drawn(i)[k].x * (f.width - 1)) % Scale >= 50
                 /\ f.centres[k][1] < f.width - 1
                 /\ f.centres[k][1]
                      # PyRound(Drawn(i)[k].x * (f.width - 1), Scale)

============================================================================
